---- MODULE Spec2Model ----
(***************************************************************************)
(* A model of mesos-dns: the Server goroutines (boot refresh, ticker,      *)
(* listeners), Resolver.Reload, Resolver.HandleMesos behind panicRecover,  *)
(* and the CurLog counters.                                                *)
(*                                                                         *)
(* Names are sequences of one-character strings ("b.m." is                 *)
(* <<"b", ".", "m", ".">>), so that cleanWild works on the characters.     *)
(* Go maps are functions; a key that is absent reads as the nil slice.     *)
(***************************************************************************)
EXTENDS Integers, Sequences, FiniteSets, TLC

\* ------------------------------------------------------------------ bounds

\* Cap on each counter of CurLog (the Go ints are unbounded in practice).
MaxCount == 1

\* Longest list of answers handed to shuffleAnswers on its own.
MaxAnswers == 3

\* Longest name handed to cleanWild on its own.
MaxNameLen == 5

\* ------------------------------------------------------------- constants

\* records.New(): TTL of every generated record.
TTL == 60

\* panicRecover: the RCODE it sets (server failure).
RcodeServerFailure == 2

\* dns.Msg.SetReply leaves Rcode at RcodeSuccess.
RcodeSuccess == 0

\* formatSRV: the Port it writes into every SRV record.
SRVPort == 53

\* TestHandler: the RCODE (NXDOMAIN) expected for a name that does not exist.
RcodeNameError == 3

\* Config.Check: the largest port it accepts.
MaxPort == 65535

\* ------------------------------------------------------------------ names

NameBob == <<"b", ".", "m", ".">>
NameBobUpper == <<"B", ".", "m", ".">>
NameBobWild == <<"b", ".", "*", ".", "m", ".">>
NameCat == <<"c", ".", "m", ".">>
NameMissing == <<"x", ".", "m", ".">>

\* The question names the clients send (all under the cluster domain "m").
QNames == {NameBob, NameBobUpper, NameBobWild, NameMissing}

\* dns.TypeSRV, TypeAAAA, TypeA, TypeANY, and TypeSOA for the final else branch.
QTypes == {"SRV", "AAAA", "A", "ANY", "SOA"}

\* ------------------------------------------------------------ record sets

\* A Go map read: the value of key k, or the nil slice when k is absent.
Lookup(map, k) == IF k \in DOMAIN map THEN map[k] ELSE <<>>

\* The empty Go map (also what a nil map reads as).
EmptyMap == [k \in {} |-> <<>>]

\* records.RecordGenerator{}: the zero value, both maps nil.
EmptyRS == [As |-> EmptyMap, SRVs |-> EmptyMap]

\* Record sets the generator can produce from a master state.
Snapshot1 ==
    [As   |-> (NameBob :> <<"10.0.0.1">>),
     SRVs |-> (NameBob :> <<"b.m:31000", "10.0.0.1">>)]

Snapshot2 ==
    [As   |-> (NameBob :> <<"10.0.0.1">>) @@ (NameCat :> <<"10.0.0.1">>),
     SRVs |-> (NameBob :> <<"10.0.0.1">>) @@ (NameCat :> <<"fe80::1">>)]

Snapshots == {Snapshot1, Snapshot2}

\* The names a record set knows.
Keys(recs) == (DOMAIN recs.As) \cup (DOMAIN recs.SRVs)

\* A map restricted to the keys in ks.
Restrict(map, ks) == [k \in (DOMAIN map) \cap ks |-> map[k]]

\* InsertState builds the maps one name at a time: the record set once the
\* names in done have been inserted.
Inserted(snap, done) ==
    [As |-> Restrict(snap.As, done), SRVs |-> Restrict(snap.SRVs, done)]

\* What ParseState can meet: a master state it parses, a fetch or parse
\* error it logs and returns from, or a fault while it runs.
ParseStateOutcomes == {"ok", "error", "panic"}

\* ------------------------------------------------------------- counters

\* logging.CurLog at start-up: the zero LogOut.
ZeroLog ==
    [MesosRequests |-> 0, MesosSuccess |-> 0, MesosNXDomain |-> 0,
     MesosFailed |-> 0, NonMesosRequests |-> 0, NonMesosSuccess |-> 0,
     NonMesosNXDomain |-> 0, NonMesosFailed |-> 0, NonMesosRecursed |-> 0]

\* ------------------------------------------------------------------ state

VARIABLES
    mainPc,     \* Server: "boot" (first Reload), "serving", "crashed"
    rs,         \* res.rs, the record set the handlers read
    rl,         \* the Reload in progress (boot or ticker goroutine)
    hs,         \* one record per handler goroutine
    resp,       \* resp[h]: the messages written to the client of h's query
    CurLog,     \* logging.CurLog
    reloaded,   \* some call of Reload has returned
    running,    \* the number of calls of Reload that have not returned
    fn          \* a call of one of the functions checked on their own

vars == <<mainPc, rs, rl, hs, resp, CurLog, reloaded, running, fn>>

\* The variables of the server.
serverVars == <<mainPc, rs, rl, hs, resp, CurLog, reloaded, running>>

\* The goroutines the listeners run queries on.
Handlers == {"h1"}

\* No Reload is running.
IdleReload ==
    [pc |-> "idle", outcome |-> "none", target |-> EmptyRS, todo |-> {},
     before |-> EmptyRS, tick |-> FALSE]

\* A handler goroutine that serves no query.
IdleHandler ==
    [pc |-> "idle", name |-> <<>>, qType |-> "none", dom |-> <<>>, i |-> 0,
     answer |-> <<>>, seen |-> {}, faulted |-> FALSE]

\* ------------------------------------------------------- pure functions

\* strings.Replace(dom, ".*", "", -1): every ".*" removed, left to right.
RECURSIVE ReplaceDotStar(_)
ReplaceDotStar(s) ==
    IF Len(s) < 2 THEN s
    ELSE IF s[1] = "." /\ s[2] = "*"
         THEN ReplaceDotStar(SubSeq(s, 3, Len(s)))
         ELSE <<s[1]>> \o ReplaceDotStar(Tail(s))

\* strings.Contains(dom, ".*")
ContainsDotStar(s) ==
    \E k \in 1..(Len(s) - 1) : s[k] = "." /\ s[k + 1] = "*"

cleanWild(dom) ==
    IF ContainsDotStar(dom) THEN ReplaceDotStar(dom) ELSE dom

\* net.ResolveIPAddr(network, target) on the targets of the snapshots: an
\* IPv4 literal resolves for "ip4" only, an IPv6 literal for "ip6" only, and
\* "host:port" is no address and no host name, so it never resolves.
ResolveIPAddr(network, target) ==
    CASE target = "10.0.0.1" /\ network = "ip4" -> [err |-> FALSE, ip |-> target]
      [] target = "fe80::1" /\ network = "ip6" -> [err |-> FALSE, ip |-> target]
      [] OTHER -> [err |-> TRUE, ip |-> ""]

\* A resource record; the fields a record type does not have are zero.
formatSRV(name, target) ==
    [Rrtype |-> "SRV", Name |-> name, Ttl |-> TTL, Priority |-> 0,
     Weight |-> 0, Port |-> SRVPort, Target |-> target \o ".", IP |-> ""]

\* formatAAAA after ResolveIPAddr("ip6", target) succeeded with ip.
formatAAAA(dom, ip) ==
    [Rrtype |-> "AAAA", Name |-> dom, Ttl |-> TTL, Priority |-> 0,
     Weight |-> 0, Port |-> 0, Target |-> "", IP |-> ip]

\* formatA after ResolveIPAddr("ip4", target) succeeded with ip.
formatA(dom, ip) ==
    [Rrtype |-> "A", Name |-> dom, Ttl |-> TTL, Priority |-> 0,
     Weight |-> 0, Port |-> 0, Target |-> "", IP |-> ip]

\* answers[r], answers[i] = answers[i], answers[r]  (1-based here)
Swap(answers, i, r) ==
    [k \in 1..Len(answers) |->
        IF k = i THEN answers[r] ELSE IF k = r THEN answers[i] ELSE answers[k]]

\* shuffleAnswers drawing from one value too few.
IntnArgOneLess(n, i) == n - i - 1

\* The argument of rand.Intn in pass i of shuffleAnswers (line 120).
IntnArg(n, i) == n - i

\* shuffleAnswers with r := rand.Intn(n-i), the offset i forgotten.
DrawIndexNoOffset(i, d) == d

\* The index r of pass i when rand.Intn returned d (line 120).
DrawIndex(i, d) == i + d

\* The loop of shuffleAnswers from index i on (0-based as in the code):
\* every list the draws r = i + rand.Intn(n-i) can leave.
RECURSIVE ShuffleFrom(_, _)
ShuffleFrom(answers, i) ==
    IF i >= Len(answers) THEN {answers}
    ELSE UNION {ShuffleFrom(Swap(answers, i + 1, DrawIndex(i, d) + 1), i + 1) :
                    d \in 0..(IntnArg(Len(answers), i) - 1)}

shuffleAnswers(answers) == ShuffleFrom(answers, 0)

\* dns.Msg.SetReply(r): an empty reply to the request r.
SetReply(r) ==
    [Question |-> r, Rcode |-> RcodeSuccess, Answer |-> <<>>, Ns |-> <<>>,
     Authoritative |-> FALSE]

\* dns.Msg.SetRcode(r, rcode) on the reply m.
SetRcode(m, rcode) == [m EXCEPT !.Rcode = rcode]

\* panicRecover without its m.SetRcode(r, 2).
RecoverMsgNoRcode(r) == SetReply(r)

\* The message the deferred function of panicRecover writes.
RecoverMsg(r) == SetRcode(SetReply(r), RcodeServerFailure)

\* The message HandleMesos writes (lines 195-198).
ReplyMsg(r, shuffled) ==
    [SetReply(r) EXCEPT !.Authoritative = TRUE, !.Answer = shuffled]

\* strings.ToLower on one character of the names used here.
ToLowerChar(c) ==
    CASE c = "B" -> "b"
      [] c = "C" -> "c"
      [] c = "M" -> "m"
      [] c = "X" -> "x"
      [] OTHER -> c

\* strings.ToLower(s), as Config.Check applies it to conf.Domain.
ToLower(s) == [k \in 1..Len(s) |-> ToLowerChar(s[k])]

\* The records one pass of the loop body of HandleMesos appends to m.Answer
\* for the entry target of res.rs.SRVs[dom]: lines 141-142 (SRV), 148-153
\* (AAAA), 159-163 (A), 172-187 (ANY).
BodyRecords(qType, name, dom, target) ==
    LET a4 == ResolveIPAddr("ip4", target)
        a6 == ResolveIPAddr("ip6", target)
    IN
    CASE qType = "SRV" -> <<formatSRV(name, target)>>
      [] qType = "AAAA" ->
           IF a6.err THEN <<>> ELSE <<formatAAAA(dom, a6.ip)>>
      [] qType = "A" ->
           IF a4.err THEN <<>> ELSE <<formatA(dom, a4.ip)>>
      [] qType = "ANY" ->
           (IF a4.err THEN <<>> ELSE <<formatA(name, a4.ip)>>)
           \o (IF a6.err THEN <<>> ELSE <<formatAAAA(dom, a6.ip)>>)
           \o <<formatSRV(dom, target)>>
      [] OTHER -> <<>>

\* m.Answer after the passes i+1.. of the loop over the entries list.
RECURSIVE LoopAnswers(_, _, _, _, _)
LoopAnswers(qType, name, dom, list, i) ==
    IF i >= Len(list) THEN <<>>
    ELSE BodyRecords(qType, name, dom, list[i + 1])
         \o LoopAnswers(qType, name, dom, list, i + 1)

\* HandleMesos on the request r while res.rs is recs and no Reload runs:
\* the messages it can write (one for each result of shuffleAnswers).
HandleMesosOn(recs, r) ==
    LET dom == cleanWild(r.Name)
        answer == LoopAnswers(r.Qtype, r.Name, dom, Lookup(recs.SRVs, dom), 0)
    IN {ReplyMsg(r, shuffled) : shuffled \in shuffleAnswers(answer)}

\* ------------------------------------------------------------------- Init

\* No function is called on its own: the server runs.
NoCall == [op |-> "none", done |-> FALSE]

Init ==
    /\ mainPc = "boot"
    /\ rs = EmptyRS
    /\ rl = IdleReload
    /\ hs = [h \in Handlers |-> IdleHandler]
    /\ resp = [h \in Handlers |-> <<>>]
    /\ CurLog = ZeroLog
    /\ reloaded = FALSE
    /\ running = 0
    /\ fn = NoCall

\* ------------------------------------------------------------------ Reload

\* Server with the listeners started before the first resolver.Reload().
ListenersOpenBeforeReload == mainPc \in {"boot", "serving"}

\* Server: the listeners are started (go resolver.Serve) only after the
\* first resolver.Reload() has returned.
ListenersOpen == mainPc = "serving"

\* Reload entered by a tick while the last call has not returned.
ReloadMayStartOverlapping == mainPc \in {"boot", "serving"}

\* Reload may be entered: by Server at boot, or by the ticker goroutine,
\* which calls it again only after its last call and PrintCurLog returned.
ReloadMayStart == mainPc \in {"boot", "serving"} /\ rl.pc = "idle"

\* The record set Reload stores before it calls ParseState (line 227).
ReloadFirstStore(old) == EmptyRS

\* Reload, line 227: res.rs = records.RecordGenerator{}
ReloadBegin ==
    /\ ReloadMayStart
    /\ rs' = ReloadFirstStore(rs)
    /\ rl' = [IdleReload EXCEPT !.pc = "parse", !.before = rs,
                                !.tick = (mainPc = "serving")]
    /\ running' = running + 1
    /\ UNCHANGED <<mainPc, hs, resp, CurLog, reloaded, fn>>

\* What an unrecovered panic of the goroutine running Reload leaves of the
\* process: neither Server nor the ticker goroutine defers a recover.
AfterReloadPanic == "crashed"

\* Reload, line 228: res.rs.ParseState(res.Config) fetches the master state.
ParseState ==
    /\ mainPc \in {"boot", "serving"}
    /\ rl.pc = "parse"
    /\ \E outcome \in ParseStateOutcomes :
         CASE outcome = "error" ->
                /\ rl' = [rl EXCEPT !.pc = "done", !.outcome = "error"]
                /\ UNCHANGED mainPc
           [] outcome = "panic" ->
                /\ rl' = [rl EXCEPT !.pc = "stopped", !.outcome = "panic"]
                /\ mainPc' = AfterReloadPanic
           [] OTHER ->
                /\ \E snap \in Snapshots :
                     rl' = [rl EXCEPT !.pc = "insert", !.outcome = "ok",
                                      !.target = snap, !.todo = Keys(snap)]
                /\ UNCHANGED mainPc
    /\ UNCHANGED <<rs, hs, resp, CurLog, reloaded, running, fn>>

\* ParseState, on a master state: InsertState puts one more name into res.rs.
InsertName ==
    /\ mainPc \in {"boot", "serving"}
    /\ rl.pc = "insert"
    /\ \E k \in rl.todo :
         LET left == rl.todo \ {k} IN
         /\ rs' = Inserted(rl.target, Keys(rl.target) \ left)
         /\ rl' = [rl EXCEPT !.todo = left,
                             !.pc = IF left = {} THEN "done" ELSE "insert"]
    /\ UNCHANGED <<mainPc, hs, resp, CurLog, reloaded, running, fn>>

\* Reload returns.  At boot Server goes on to start the ticker, register the
\* handlers and start the listeners; in the ticker goroutine PrintCurLog is
\* next.
ReloadReturn ==
    /\ mainPc \in {"boot", "serving"}
    /\ rl.pc = "done"
    /\ IF rl.tick
       THEN /\ rl' = [rl EXCEPT !.pc = "log"]
            /\ UNCHANGED mainPc
       ELSE /\ rl' = IdleReload
            /\ mainPc' = "serving"
    /\ reloaded' = TRUE
    /\ running' = running - 1
    /\ UNCHANGED <<rs, hs, resp, CurLog, fn>>

\* logging.PrintCurLog(): prints CurLog.
PrintCurLog ==
    /\ mainPc = "serving"
    /\ rl.pc = "log"
    /\ rl' = IdleReload
    /\ UNCHANGED <<mainPc, rs, hs, resp, CurLog, reloaded, running, fn>>

\* --------------------------------------------------------------- handlers

\* The request of handler h.
Request(h) == [Name |-> hs[h].name, Qtype |-> hs[h].qType]

\* res.rs.SRVs[dom] as handler h reads it now.
CurrentSRVs(h) == Lookup(rs.SRVs, hs[h].dom)

\* Reload is between its store of line 227 and the return of ParseState.
Reloading == rl.pc \in {"parse", "insert"}

\* Handler record q after one more read of res.rs: the record set read is
\* noted in seen.
NoteRead(q) == [q EXCEPT !.seen = @ \cup {rs}]

\* A query arrives; HandleMesos runs lines 131-135.
StartQuery(h, name, qType) ==
    /\ ListenersOpen
    /\ hs[h].pc = "idle"
    /\ hs' = [hs EXCEPT ![h] =
                [IdleHandler EXCEPT
                    !.name = name, !.qType = qType, !.dom = cleanWild(name),
                    !.pc = CASE qType = "SRV" -> "print"
                             [] qType \in {"AAAA", "A", "ANY"} -> "cond"
                             [] OTHER -> "finish"]]
    /\ resp' = [resp EXCEPT ![h] = <<>>]
    /\ UNCHANGED <<mainPc, rs, rl, CurLog, reloaded, running, fn>>

\* Line 138: fmt.Println(res.rs.SRVs[dom])
PrintSRVs(h) ==
    /\ mainPc = "serving"
    /\ hs[h].pc = "print"
    /\ hs' = [hs EXCEPT ![h] = [NoteRead(@) EXCEPT !.pc = "cond"]]
    /\ UNCHANGED <<mainPc, rs, rl, resp, CurLog, reloaded, running, fn>>

\* The loop condition i < len(res.rs.SRVs[dom]) of lines 140, 147, 158, 171.
LoopCond(h) ==
    /\ mainPc = "serving"
    /\ hs[h].pc = "cond"
    /\ hs' = [hs EXCEPT ![h] =
                [NoteRead(@) EXCEPT
                    !.pc = IF hs[h].i < Len(CurrentSRVs(h)) THEN "body"
                           ELSE "finish"]]
    /\ UNCHANGED <<mainPc, rs, rl, resp, CurLog, reloaded, running, fn>>

\* panicRecover: the deferred function recovers the panic of f(w, r), writes
\* its message and returns; the goroutine of the query ends.
Recover(h) ==
    /\ hs' = [hs EXCEPT ![h] =
                [NoteRead(@) EXCEPT !.pc = "idle", !.faulted = TRUE,
                                    !.i = 0, !.answer = <<>>]]
    /\ resp' = [resp EXCEPT ![h] = Append(@, RecoverMsg(Request(h)))]

\* The records one read of res.rs.SRVs[dom][i] adds to m.Answer, and the
\* next place in the loop body: lines 141-142, 148-153, 159-163, 172-187.
BodyStep(h, target) ==
    LET q == NoteRead(hs[h])
        a4 == ResolveIPAddr("ip4", target)
        a6 == ResolveIPAddr("ip6", target)
    IN
    CASE q.pc = "body" /\ q.qType = "SRV" ->
           hs' = [hs EXCEPT ![h] =
                    [q EXCEPT !.answer = Append(@, formatSRV(q.name, target)),
                              !.i = @ + 1, !.pc = "cond"]]
      [] q.pc = "body" /\ q.qType = "AAAA" ->
           hs' = [hs EXCEPT ![h] =
                    [q EXCEPT !.answer = IF a6.err THEN @
                                  ELSE Append(@, formatAAAA(q.dom, a6.ip)),
                              !.i = @ + 1, !.pc = "cond"]]
      [] q.pc = "body" /\ q.qType = "A" ->
           hs' = [hs EXCEPT ![h] =
                    [q EXCEPT !.answer = IF a4.err THEN @
                                  ELSE Append(@, formatA(q.dom, a4.ip)),
                              !.i = @ + 1, !.pc = "cond"]]
      [] q.pc = "body" /\ q.qType = "ANY" ->
           hs' = [hs EXCEPT ![h] =
                    [q EXCEPT !.answer = IF a4.err THEN @
                                  ELSE Append(@, formatA(q.name, a4.ip)),
                              !.pc = "bodyAAAA"]]
      [] q.pc = "bodyAAAA" ->
           hs' = [hs EXCEPT ![h] =
                    [q EXCEPT !.answer = IF a6.err THEN @
                                  ELSE Append(@, formatAAAA(q.dom, a6.ip)),
                              !.pc = "bodySRV"]]
      [] q.pc = "bodySRV" ->
           hs' = [hs EXCEPT ![h] =
                    [q EXCEPT !.answer = Append(@, formatSRV(q.dom, target)),
                              !.i = @ + 1, !.pc = "cond"]]

\* One read of res.rs.SRVs[dom][i] in a loop body.  An index past the end of
\* the slice read now is a run-time panic, which panicRecover recovers.
LoopBody(h) ==
    /\ mainPc = "serving"
    /\ hs[h].pc \in {"body", "bodyAAAA", "bodySRV"}
    /\ IF hs[h].i < Len(CurrentSRVs(h))
       THEN /\ BodyStep(h, CurrentSRVs(h)[hs[h].i + 1])
            /\ UNCHANGED resp
       ELSE Recover(h)
    /\ UNCHANGED <<mainPc, rs, rl, CurLog, reloaded, running, fn>>

\* The places of HandleMesos that read res.rs.SRVs[dom].
ReadPcs == {"print", "cond", "body", "bodyAAAA", "bodySRV"}

\* HandleMesos reads the map res.rs.SRVs with no lock while InsertState
\* writes into it on the goroutine of Reload: a data race.  Besides reading
\* the map as it is before or after the write (PrintSRVs, LoopCond,
\* LoopBody), the read can hit the map in mid-write, which the Go runtime
\* ends with "fatal error: concurrent map read and map write"; recover()
\* does not catch that, and the process exits.
RacyReadCrash(h) ==
    /\ mainPc = "serving"
    /\ hs[h].pc \in ReadPcs
    /\ rl.pc = "insert"
    /\ mainPc' = "crashed"
    /\ UNCHANGED <<rs, rl, hs, resp, CurLog, reloaded, running, fn>>

\* panicRecover without the test rec != nil: its deferred function writes
\* the SERVFAIL message after every call.
DeferredAlwaysWrites(r) == <<RecoverMsg(r)>>

\* What the deferred function of panicRecover writes when f(w, r) returned
\* without a panic: recover() is nil, so nothing (lines 153-161).
DeferredOnReturn(r) == <<>>

\* Lines 195-201: Authoritative, shuffleAnswers, w.WriteMsg(m); then the
\* return through panicRecover.
Finish(h) ==
    /\ mainPc = "serving"
    /\ hs[h].pc = "finish"
    /\ \E shuffled \in shuffleAnswers(hs[h].answer) :
         resp' = [resp EXCEPT ![h] =
                    Append(@, ReplyMsg(Request(h), shuffled))
                    \o DeferredOnReturn(Request(h))]
    /\ hs' = [hs EXCEPT ![h].pc = "idle", ![h].i = 0, ![h].answer = <<>>]
    /\ UNCHANGED <<mainPc, rs, rl, CurLog, reloaded, running, fn>>

\* HandleNonMesos: a query outside the cluster domain is forwarded and
\* counted in CurLog.
HandleNonMesos(result) ==
    /\ ListenersOpen
    /\ CurLog.NonMesosRequests < MaxCount
    /\ CurLog' = [CurLog EXCEPT
                    !.NonMesosRequests = @ + 1,
                    !.NonMesosRecursed = @ + 1,
                    !.NonMesosSuccess = IF result = "success" THEN @ + 1 ELSE @,
                    !.NonMesosNXDomain = IF result = "nxdomain" THEN @ + 1 ELSE @,
                    !.NonMesosFailed = IF result = "failed" THEN @ + 1 ELSE @]
    /\ UNCHANGED <<mainPc, rs, rl, hs, resp, reloaded, running, fn>>

\* Handler h runs one more step of HandleMesos.
HandlerStep(h) ==
    \/ PrintSRVs(h)
    \/ LoopCond(h)
    \/ LoopBody(h)
    \/ Finish(h)

\* ------------------------------------------------------------------- Next

Next ==
    \/ ReloadBegin
    \/ ParseState
    \/ InsertName
    \/ ReloadReturn
    \/ PrintCurLog
    \/ \E h \in Handlers, name \in QNames, qType \in QTypes :
         StartQuery(h, name, qType)
    \/ \E h \in Handlers : PrintSRVs(h)
    \/ \E h \in Handlers : LoopCond(h)
    \/ \E h \in Handlers : LoopBody(h)
    \/ \E h \in Handlers : RacyReadCrash(h)
    \/ \E h \in Handlers : Finish(h)
    \/ \E result \in {"success", "nxdomain", "failed"} : HandleNonMesos(result)

Spec == Init /\ [][Next]_vars

\* ------------------------------------------------- functions on their own

\* The record sets res.rs can hold when no Reload runs.
QuietRecordSets == Snapshots \cup {EmptyRS}

\* Calls of HandleMesos with one question name in two letter cases.
HandleCalls ==
    {[op |-> "handle", done |-> FALSE, recs |-> recs, qType |-> qType,
      name |-> name, other |-> other, out |-> <<>>] :
        recs \in QuietRecordSets, qType \in QTypes,
        name \in QNames, other \in QNames}

\* The sequences over S of length at most n.
SeqsUpTo(S, n) == UNION {[1..k -> S] : k \in 0..n}

\* Records of the three types HandleMesos puts into m.Answer.
SampleRRs ==
    {formatA(NameBob, "10.0.0.1"), formatSRV(NameBob, "b.m:31000"),
     formatAAAA(NameCat, "fe80::1")}

\* Calls of shuffleAnswers: answers is the slice it swaps in place, i its
\* loop index, fault the run-time panic it met.
ShuffleCalls ==
    {[op |-> "shuffle", done |-> FALSE, in |-> answers, answers |-> answers,
      i |-> 0, fault |-> "none"] :
        answers \in SeqsUpTo(SampleRRs, MaxAnswers)}

\* Calls of cleanWild, on names of letters, dots and stars.
CleanWildCalls ==
    {[op |-> "cleanWild", done |-> FALSE, in |-> name, out |-> <<>>] :
        name \in SeqsUpTo({"b", ".", "*"}, MaxNameLen)}

\* HandleMesos answers the two requests of the call.
ApplyHandle ==
    /\ fn.op = "handle"
    /\ ~fn.done
    /\ \E m1 \in HandleMesosOn(fn.recs, [Name |-> fn.name, Qtype |-> fn.qType]),
          m2 \in HandleMesosOn(fn.recs, [Name |-> fn.other, Qtype |-> fn.qType]) :
         fn' = [fn EXCEPT !.done = TRUE, !.out = <<m1, m2>>]
    /\ UNCHANGED serverVars

\* ------------------------------------------------------ main and Config

\* Interface addresses net.InterfaceAddrs() can return: ip is what
\* net.ParseCIDR gives, v4 whether ip.To4() is not nil.
Lo == [ip |-> "127.0.0.1", v4 |-> TRUE]
Eth == [ip |-> "10.0.0.1", v4 |-> TRUE]
EthV6 == [ip |-> "fe80::1", v4 |-> FALSE]

InterfaceAddrs == {<<>>, <<Lo>>, <<Lo, Eth>>, <<EthV6, Eth>>}

\* dns.ClientConfigFromFile("/etc/resolv.conf"): an error, or the servers.
ResolvConfs ==
    {[err |-> TRUE, Servers |-> <<>>],
     [err |-> FALSE, Servers |-> <<"10.0.0.1">>],
     [err |-> FALSE, Servers |-> <<"127.0.0.1", "8.8.8.8">>]}

\* The configurations main can hand to Check, after New, LoadFromFile and
\* LoadFromContext.
Configs ==
    [Masters : {<<>>, <<"master1">>},
     Port : {-1, 0, 53, MaxPort, MaxPort + 1},
     Resolvers : {<<>>, <<"8.8.8.8">>, <<"10.0.0.1">>, <<"10.0.0.1", "8.8.8.8">>},
     Email : {<<>>, <<"r", "@", "m">>, <<"r", ".">>},
     Domain : {<<"m">>, <<"M">>}]

\* Runs of main from conf.Check() on: pc is the place in main, result what
\* Check returned, exit the exit status (-1 while the process runs), server
\* whether Server(conf) was called, forwarded the upstreams queries were
\* sent to.
MainCalls ==
    {[op |-> "main", done |-> FALSE, pc |-> "check", conf |-> conf,
      addies |-> addies, resolvConf |-> rc, result |-> "none", exit |-> -1,
      server |-> FALSE, forwarded |-> {}] :
        conf \in Configs, addies \in InterfaceAddrs, rc \in ResolvConfs}

\* localAddies with its loop started at the second interface address.
localAddiesFromSecond(addies) ==
    LET rest == IF addies = <<>> THEN <<>> ELSE Tail(addies)
        v4 == SelectSeq(rest, LAMBDA a : a.v4)
    IN [k \in 1..Len(v4) |-> v4[k].ip]

\* localAddies: the local IPv4 addresses, in the order of the interfaces.
localAddies(addies) ==
    LET v4 == SelectSeq(addies, LAMBDA a : a.v4)
    IN [k \in 1..Len(v4) |-> v4[k].ip]

\* nonLocalAddies: the entries of cservers equal to no local address.
nonLocalAddies(cservers, addies) ==
    LET bad == localAddies(addies)
    IN SelectSeq(cservers, LAMBDA c : \A x \in 1..Len(bad) : c # bad[x])

\* Check accepting every port below the largest.
PortAboveRange(port) == port > MaxPort

\* Config.Check, line 395.
PortOutOfRange(port) == port < 0 \/ port > MaxPort

\* strings.Replace(conf.Email, "@", ".", -1)
ReplaceAt(email) ==
    [k \in 1..Len(email) |-> IF email[k] = "@" THEN "." ELSE email[k]]

\* conf.Check() in main, with GetLocalDNS when no resolver is configured.
\* os.Exit(2) in GetLocalDNS ends the process inside Check; so does the
\* panic of conf.Email[len(conf.Email)-1:] on an empty Email (exit status 2
\* of an unrecovered panic).
Check ==
    /\ fn.op = "main"
    /\ fn.pc = "check"
    /\ LET conf == fn.conf
           resolvers ==
               IF Len(conf.Resolvers) = 0
               THEN nonLocalAddies(fn.resolvConf.Servers, fn.addies)
               ELSE conf.Resolvers
           email == ReplaceAt(conf.Email)
       IN
       IF Len(conf.Masters) = 0 \/ PortOutOfRange(conf.Port)
       THEN fn' = [fn EXCEPT !.pc = "checked", !.result = "error"]
       ELSE IF Len(conf.Resolvers) = 0 /\ fn.resolvConf.err
       THEN fn' = [fn EXCEPT !.pc = "exited", !.exit = 2, !.done = TRUE]
       ELSE IF Len(email) = 0
       THEN fn' = [fn EXCEPT !.pc = "panicked", !.exit = 2, !.done = TRUE,
                             !.conf.Resolvers = resolvers]
       ELSE fn' = [fn EXCEPT
                     !.pc = "checked", !.result = "nil",
                     !.conf.Resolvers = resolvers,
                     !.conf.Email = IF email[Len(email)] # "."
                                    THEN email \o <<".">> ELSE email,
                     !.conf.Domain = ToLower(conf.Domain)]
    /\ UNCHANGED serverVars

\* main, lines 95-115: os.Exit(1) on an error of Check, else Server(conf).
MainAfterCheck ==
    /\ fn.op = "main"
    /\ fn.pc = "checked"
    /\ IF fn.result = "error"
       THEN fn' = [fn EXCEPT !.pc = "exited", !.exit = 1, !.done = TRUE]
       ELSE fn' = [fn EXCEPT !.pc = "server", !.server = TRUE]
    /\ UNCHANGED serverVars

\* HandleNonMesos forwards a query: the upstreams that are local IPv4
\* addresses (as computed at start-up) are skipped, and one of the others
\* is tried.
Forward ==
    /\ fn.op = "main"
    /\ fn.pc = "server"
    /\ LET local == localAddies(fn.addies) IN
       \E k \in 1..Len(fn.conf.Resolvers) :
          /\ \A x \in 1..Len(local) : fn.conf.Resolvers[k] # local[x]
          /\ fn.conf.Resolvers[k] \notin fn.forwarded
          /\ fn' = [fn EXCEPT !.forwarded = @ \cup {fn.conf.Resolvers[k]}]
    /\ UNCHANGED serverVars

\* ------------------------------------------------------------ shuffle etc.

\* One pass of the loop of shuffleAnswers (lines 119-122), or its return
\* (line 124).  rand.Intn panics when its argument is not positive, and an
\* index past the end of the slice is a run-time panic.
ShuffleStep ==
    /\ fn.op = "shuffle"
    /\ ~fn.done
    /\ LET n == Len(fn.answers) IN
       IF fn.i >= n
       THEN fn' = [fn EXCEPT !.done = TRUE]
       ELSE IF IntnArg(n, fn.i) <= 0
            THEN fn' = [fn EXCEPT !.done = TRUE, !.fault = "Intn"]
            ELSE \E d \in 0..(IntnArg(n, fn.i) - 1) :
                   LET r == DrawIndex(fn.i, d) IN
                   IF r >= n
                   THEN fn' = [fn EXCEPT !.done = TRUE, !.fault = "index"]
                   ELSE fn' = [fn EXCEPT
                                 !.answers = Swap(@, fn.i + 1, r + 1),
                                 !.i = @ + 1]
    /\ UNCHANGED serverVars

\* cleanWild returns.
ApplyCleanWild ==
    /\ fn.op = "cleanWild"
    /\ ~fn.done
    /\ fn' = [fn EXCEPT !.done = TRUE, !.out = cleanWild(fn.in)]
    /\ UNCHANGED serverVars

\* A function is called on its own, or main runs up to Server; the server
\* itself stays as constructed.
InitFn ==
    /\ mainPc = "boot"
    /\ rs = EmptyRS
    /\ rl = IdleReload
    /\ hs = [h \in Handlers |-> IdleHandler]
    /\ resp = [h \in Handlers |-> <<>>]
    /\ CurLog = ZeroLog
    /\ reloaded = FALSE
    /\ running = 0
    /\ \/ fn \in HandleCalls
       \/ fn \in ShuffleCalls
       \/ fn \in CleanWildCalls
       \/ fn \in MainCalls

NextFn ==
    \/ ApplyHandle
    \/ ShuffleStep
    \/ ApplyCleanWild
    \/ Check
    \/ MainAfterCheck
    \/ Forward

SpecFn == InitFn /\ [][NextFn]_vars

\* ----------------------------------------------------------------- claims

\* Handler h takes a step that reads res.rs.
ReadsRecordSet(h) ==
    /\ hs[h].pc \in ReadPcs
    /\ hs'[h] # hs[h]

\* Handler h has written the reply of HandleMesos (no fault) to its query.
Answered(h) == hs[h].pc = "idle" /\ ~hs[h].faulted /\ resp[h] # <<>>

\* The handler of h ends in this step, by its own write or by a recovered
\* fault.
Completes(h) == hs[h].pc # "idle" /\ hs'[h].pc = "idle"

\* The message m carries an SOA record in its Authority section.
HasSOAInAuthority(m) == \E k \in 1..Len(m.Ns) : m.Ns[k].Rrtype = "SOA"

\* C1: no handler reads res.rs while a Reload is between emptying it and
\* having filled it again: every read falls outside a running refresh, so
\* it returns the complete result of a finished one.
C1_NoPartialRead ==
    [][\A h \in Handlers : ReadsRecordSet(h) => ~Reloading]_vars

\* C2: all the reads of res.rs within one HandleMesos call return the same
\* record set.
C2_OneGenerationPerCall ==
    \A h \in Handlers : Cardinality(hs[h].seen) <= 1

\* C3: when a refresh tick has failed, res.rs is the record set it was
\* before the tick.
C3_FailedTickKeepsRecordSet ==
    (rl.pc = "log" /\ rl.outcome = "error") => rs = rl.before

\* C4: a fault inside a handler wrapped by panicRecover ends with one
\* message of RCODE 2 written to the client of that query, and leaves the
\* server serving, the goroutine free for the next query.
C4_FaultAnsweredServfail ==
    [][\A h \in Handlers :
         (~hs[h].faulted /\ hs'[h].faulted) =>
            /\ resp'[h] # <<>>
            /\ resp'[h][Len(resp'[h])].Rcode = RcodeServerFailure
            /\ resp'[h][Len(resp'[h])].Question = Request(h)
            /\ mainPc' = "serving"
            /\ hs'[h].pc = "idle"]_vars

\* A handler has faulted (an index past the end of a slice that a Reload
\* emptied under it) and its client holds the SERVFAIL reply.
C4_Witness ==
    \E h \in Handlers :
        /\ hs[h].faulted
        /\ hs[h].pc = "idle"
        /\ Len(resp[h]) = 1
        /\ resp[h][1].Rcode = RcodeServerFailure
        /\ mainPc = "serving"

\* C5: a fault inside a refresh tick leaves the server serving.
C5_TickFaultContained ==
    (rl.tick /\ rl.outcome = "panic") => mainPc = "serving"

\* C6: a query is handled only after some Reload has returned.
C6_NoQueryBeforeFirstReload ==
    \A h \in Handlers :
        (hs[h] # IdleHandler \/ resp[h] # <<>>) => reloaded

\* A query is in the hands of HandleMesos, after the boot Reload.
C6_Witness ==
    \E h \in Handlers : hs[h].pc \in {"cond", "finish"} /\ reloaded

\* C7: every handled in-domain query adds one to MesosRequests and one to
\* exactly one of MesosSuccess, MesosNXDomain and MesosFailed (MesosFailed
\* when the handler faulted).
C7_CountsEveryQuery ==
    [][\A h \in Handlers :
         Completes(h) =>
            /\ CurLog'.MesosRequests = CurLog.MesosRequests + 1
            /\ CurLog'.MesosSuccess + CurLog'.MesosNXDomain
                 + CurLog'.MesosFailed
               = CurLog.MesosSuccess + CurLog.MesosNXDomain
                 + CurLog.MesosFailed + 1
            /\ (hs'[h].faulted =>
                  CurLog'.MesosFailed = CurLog.MesosFailed + 1)]_vars

\* C8: the PrintCurLog of a tick that published resets every counter to
\* zero; the one of a failed tick leaves the counters as they are.
C8_ResetAfterPublish ==
    [][(rl.pc = "log" /\ rl'.pc = "idle") =>
         IF rl.outcome = "ok" THEN CurLog' = ZeroLog
         ELSE CurLog' = CurLog]_vars

\* C9: a reply to a query (other than SOA) whose looked-up name is in none
\* of the record sets the handler read has RCODE 3 and the SOA record in its
\* Authority section.
C9_MissingNameNXDomain ==
    \A h \in Handlers :
        (/\ Answered(h)
         /\ hs[h].seen # {}
         /\ \A r \in hs[h].seen : hs[h].dom \notin Keys(r))
        => /\ resp[h][1].Rcode = RcodeNameError
           /\ HasSOAInAuthority(resp[h][1])

\* C10: a reply to an AAAA query has an empty Answer section, with RCODE 0
\* when the looked-up name is a key of the record set read and RCODE 3
\* otherwise.
C10_AAAANoDataOrNXDomain ==
    \A h \in Handlers :
        (Answered(h) /\ hs[h].qType = "AAAA") =>
           \A r \in hs[h].seen :
              /\ resp[h][1].Answer = <<>>
              /\ resp[h][1].Rcode =
                   IF hs[h].dom \in Keys(r) THEN RcodeSuccess
                   ELSE RcodeNameError

\* The number of places of the list seq that hold x.
Count(seq, x) == Cardinality({k \in 1..Len(seq) : seq[k] = x})

\* The lists a and b hold the same records, each as many times.
SameMultiset(a, b) ==
    /\ Len(a) = Len(b)
    /\ \A k \in 1..Len(a) : Count(a, a[k]) = Count(b, a[k])

\* The name s with each ".*." collapsed to ".".
RECURSIVE CollapseDotStarDot(_)
CollapseDotStarDot(s) ==
    IF Len(s) < 3 THEN s
    ELSE IF s[1] = "." /\ s[2] = "*" /\ s[3] = "."
         THEN CollapseDotStarDot(SubSeq(s, 3, Len(s)))
         ELSE <<s[1]>> \o CollapseDotStarDot(Tail(s))

\* The canonicalized question name: wildcard collapsed, lower case.
Canonical(name) == ToLower(CollapseDotStarDot(name))

\* The host and port of a "host:port" entry of SRVs; ok is FALSE for an
\* entry that is no "host:port".
HostPort(entry) ==
    IF entry = "b.m:31000" THEN [ok |-> TRUE, host |-> "b.m", port |-> 31000]
    ELSE [ok |-> FALSE, host |-> "", port |-> 0]

\* C12: the reply to an A query that read the one record set r holds one A
\* record for each entry of r.As[lookup], lookup being the canonicalized
\* question name, with the address of the entry and the question name as
\* sent, and nothing else.
C12_AQueryAnswersFromAs ==
    \A h \in Handlers :
        (Answered(h) /\ hs[h].qType = "A") =>
           \A r \in hs[h].seen :
              hs[h].seen = {r} =>
                 LET ips == Lookup(r.As, Canonical(hs[h].name))
                     answer == resp[h][1].Answer
                 IN /\ \A k \in 1..Len(answer) :
                         /\ answer[k].Rrtype = "A"
                         /\ answer[k].Name = hs[h].name
                    /\ SameMultiset([k \in 1..Len(answer) |-> answer[k].IP],
                                    ips)

\* C13: the reply to an SRV query that read the one record set r holds one
\* SRV record for each entry of r.SRVs[lookup], with priority 0 and weight
\* 0, and for a "host:port" entry the port parsed from it and the host
\* followed by a dot as Target.
C13_SRVQueryHostAndPort ==
    \A h \in Handlers :
        (Answered(h) /\ hs[h].qType = "SRV") =>
           \A r \in hs[h].seen :
              hs[h].seen = {r} =>
                 LET entries == Lookup(r.SRVs, Canonical(hs[h].name))
                     answer == resp[h][1].Answer
                 IN /\ Len(answer) = Len(entries)
                    /\ \A k \in 1..Len(answer) :
                         /\ answer[k].Rrtype = "SRV"
                         /\ answer[k].Priority = 0
                         /\ answer[k].Weight = 0
                    /\ \A e \in 1..Len(entries) :
                         HostPort(entries[e]).ok =>
                            \E k \in 1..Len(answer) :
                               /\ answer[k].Port = HostPort(entries[e]).port
                               /\ answer[k].Target
                                    = HostPort(entries[e]).host \o "."

\* C14: the reply to an SOA query has RCODE 0, one SOA record in Answer and
\* a non-empty Authority section, whether the name exists or not.
C14_SOAAlwaysAnswered ==
    \A h \in Handlers :
        (Answered(h) /\ hs[h].qType = "SOA") =>
           /\ resp[h][1].Rcode = RcodeSuccess
           /\ Len(resp[h][1].Answer) = 1
           /\ resp[h][1].Answer[1].Rrtype = "SOA"
           /\ resp[h][1].Ns # <<>>

\* C19: a handler that has started is never kept from its next step: it
\* can always run on to the write of its response, whatever the refresh
\* does.
C19_HandlerNeverBlocked ==
    \A h \in Handlers : hs[h].pc # "idle" => ENABLED HandlerStep(h)

\* C20: at no time are two calls of Reload running.
C20_SingleWriter == running <= 1

\* A tick's Reload is writing the record set, after the boot Reload has
\* returned.
C20_Witness == running = 1 /\ rl.tick /\ rl.pc = "insert" /\ reloaded

\* The records of the list answer with their Name fields blanked.
WithoutNames(answer) ==
    [k \in 1..Len(answer) |-> [answer[k] EXCEPT !.Name = <<>>]]

\* C11: the replies to two queries whose names differ in letter case only
\* have the same RCODE and the same answers but for the Name fields.
C11_CaseInsensitive ==
    (fn.op = "handle" /\ fn.done /\ ToLower(fn.name) = ToLower(fn.other)) =>
       /\ fn.out[1].Rcode = fn.out[2].Rcode
       /\ SameMultiset(WithoutNames(fn.out[1].Answer),
                       WithoutNames(fn.out[2].Answer))

\* C15: shuffleAnswers meets no fault, its index stays within the list, and
\* the list it holds (and returns) is a permutation of its input.
C15_ShufflePermutes ==
    fn.op = "shuffle" =>
       /\ fn.fault = "none"
       /\ fn.i <= Len(fn.in)
       /\ (fn.done => fn.i = Len(fn.in))
       /\ SameMultiset(fn.answers, fn.in)

\* shuffleAnswers has returned a list of two or more records in another
\* order than it got them.
C15_Witness ==
    fn.op = "shuffle" /\ fn.done /\ Len(fn.in) >= 2 /\ fn.answers # fn.in

\* C16: cleanWild returns its argument with each ".*." collapsed to "." and
\* nothing else changed.
C16_CleanWildCollapses ==
    (fn.op = "cleanWild" /\ fn.done) => fn.out = CollapseDotStarDot(fn.in)

\* The local IPv4 addresses of the host.
LocalIPv4(addies) == {addies[k].ip : k \in {j \in 1..Len(addies) : addies[j].v4}}

\* C17: Check returns an error exactly when there is no master or the port
\* is outside 0..65535, and main then exits with a non-zero status without
\* having called Server.
C17_CheckErrorExits ==
    fn.op = "main" =>
       /\ (fn.pc \in {"checked", "server"} \/ fn.exit = 1) =>
             (fn.result = "error" <=>
                (fn.conf.Masters = <<>> \/ fn.conf.Port \notin 0..65535))
       /\ (fn.conf.Masters = <<>> \/ fn.conf.Port \notin 0..65535) =>
             /\ fn.pc \in {"check", "checked", "exited"}
             /\ ~fn.server
             /\ fn.forwarded = {}
             /\ fn.pc = "exited" => fn.exit = 1

\* main has exited with status 1 on a port outside the range, with masters
\* configured.
C17_Witness ==
    /\ fn.op = "main"
    /\ fn.pc = "exited"
    /\ fn.exit = 1
    /\ fn.conf.Masters # <<>>
    /\ fn.conf.Port < 0

Distinct(seq) == \A j, k \in 1..Len(seq) : seq[j] = seq[k] => j = k

\* The orderings of the list seq.
Orderings(seq) ==
    {p \in [1..Len(seq) -> {seq[k] : k \in 1..Len(seq)}] : SameMultiset(p, seq)}

\* C21: at every point of the loop of shuffleAnswers on a list of pairwise
\* distinct answers, the lists it can still return are all the orderings
\* that keep the places already passed: at its start all n! orderings of
\* the input, at its end the list it returns.
C21_EveryOrderingPossible ==
    (fn.op = "shuffle" /\ Distinct(fn.in)) =>
       ShuffleFrom(fn.answers, fn.i)
         = {p \in Orderings(fn.in) :
                \A k \in 1..fn.i : p[k] = fn.answers[k]}

\* shuffleAnswers has returned three distinct answers in reverse order.
C21_Witness ==
    /\ fn.op = "shuffle"
    /\ fn.done
    /\ Len(fn.in) = 3
    /\ Distinct(fn.in)
    /\ fn.answers = <<fn.in[3], fn.in[2], fn.in[1]>>

\* C22: a query in the hands of its handler has no response yet, and a
\* query whose dispatch through panicRecover has ended, by the handler's own
\* write or by a recovered fault, has exactly one.
C22_ExactlyOneResponse ==
    \A h \in Handlers :
        /\ Len(resp[h]) <= 1
        /\ hs[h].pc # "idle" => resp[h] = <<>>
        /\ (hs[h].pc = "idle" /\ hs[h].qType # "none") => Len(resp[h]) = 1

\* A query ended by a fault while a refresh was writing the record set: its
\* only response is the one of the barrier.
C22_Witness ==
    \E h \in Handlers :
        /\ hs[h].pc = "idle"
        /\ hs[h].faulted
        /\ Cardinality(hs[h].seen) >= 2
        /\ Reloading
        /\ Len(resp[h]) = 1

====
